---- MODULE Spec2Model ----
(***************************************************************************)
(* AutoPlugin: register() turns a callable into GET/POST routes of a web   *)
(* application, generate() writes openapi.yaml and ai-plugin.json, and     *)
(* _generate_description() asks a process-wide cached LLM chain for a      *)
(* description.  The model follows src/autoplugin/autoplugin.py.           *)
(***************************************************************************)
EXTENDS Integers, Sequences, FiniteSets, TLC

VARIABLES
    routes,       \* app.routes: the routes register() appended, in order
    chain,        \* _func_description_chain: 0 is None, n > 0 the n-th LLMChain built
    initCount,    \* number of LLMChain(...) constructions so far (line 206)
    genOk,        \* number of _generate_description calls that returned
    langchain,    \* whether "from langchain... import" succeeds in this process
    fs,           \* the files of out_dir: openapi.yaml and ai-plugin.json
    call,         \* the last operation: its arguments and what it did
    thread        \* per thread: where it stands in _get_langchain_description

vars == <<routes, chain, initCount, genOk, langchain, fs, call, thread>>

(***************************************************************************)
(* Bounds of the model.                                                    *)
(***************************************************************************)
MaxRoutes == 2
MaxGenCalls == 2
MaxOverrides == 2
NumThreads == 2

(***************************************************************************)
(* Python values.  Every value has the same three fields so that any two   *)
(* can be compared.                                                        *)
(***************************************************************************)
NoneV == [t |-> "None", i |-> 0, s |-> ""]
EmptyV == [t |-> "empty", i |-> 0, s |-> ""]        \* inspect.Parameter.empty
EllipsisV == [t |-> "Ellipsis", i |-> 0, s |-> ""]  \* the literal ...
IntV(n) == [t |-> "int", i |-> n, s |-> ""]
StrV(x) == [t |-> "str", i |-> 0, s |-> x]

(***************************************************************************)
(* The callables that are registered.  hello is the one of example.py; add *)
(* carries a doc text and has no retrievable source (inspect.getsource     *)
(* raises for it), so that both branches of the description code are used. *)
(***************************************************************************)
hello ==
    [name |-> "hello",
     params |-> << [name |-> "name", annotation |-> "str", default |-> EmptyV],
                   [name |-> "age", annotation |-> "int", default |-> IntV(5)] >>,
     returns |-> "str",
     doc |-> NoneV,
     source |-> StrV("async def hello(name: str, age: int = 5) -> str: ...")]

add ==
    [name |-> "add",
     params |-> << [name |-> "a", annotation |-> "int", default |-> EmptyV],
                   [name |-> "b", annotation |-> "int", default |-> EmptyV] >>,
     returns |-> "int",
     doc |-> StrV("Adds two numbers."),
     source |-> NoneV]

Callables == {hello, add}

EmptyAnn == "inspect._empty"   \* a missing annotation

\* a callable whose parameter carries no annotation: async def echo(msg)
echo ==
    [name |-> "echo",
     params |-> << [name |-> "msg", annotation |-> EmptyAnn, default |-> EmptyV] >>,
     returns |-> EmptyAnn,
     doc |-> NoneV,
     source |-> StrV("async def echo(msg): ...")]

CallableNamed(n) == CHOOSE f \in Callables \cup {echo} : f.name = n

ParamNames(func) == {func.params[k].name : k \in 1..Len(func.params)}

Param(func, n) == func.params[CHOOSE k \in 1..Len(func.params) : func.params[k].name = n]

\* Python's binding of a keyword call: the keyword if passed, else the
\* parameter's default
Arg(func, kwargs, n) == IF n \in DOMAIN kwargs THEN kwargs[n] ELSE Param(func, n).default

\* The body of each callable: what func(**kwargs) returns.
Invoke(func, kwargs) ==
    IF func.name = "hello"
    THEN StrV("Hello, " \o Arg(func, kwargs, "name").s \o "! Age "
              \o ToString(Arg(func, kwargs, "age").i) \o ".")
    ELSE IF func.name = "echo" THEN Arg(func, kwargs, "msg")
    ELSE IntV(Arg(func, kwargs, "a").i + Arg(func, kwargs, "b").i)

(***************************************************************************)
(* Schema inference.                                                       *)
(***************************************************************************)
\* every field taken as required, whatever its default
PostFieldsAllRequired(func) ==
    [n \in ParamNames(func) |->
        [annotation |-> Param(func, n).annotation, default |-> EllipsisV]]

\* get_post_wrapper: fields = {name: (annotation, default or ...)}
PostFields(func) ==
    [n \in ParamNames(func) |->
        LET param == Param(func, n) IN
        [annotation |-> param.annotation,
         default |-> IF param.default # EmptyV THEN param.default ELSE EllipsisV]]

\* a getattr that never finds the attribute
GetAttrMissing(param, attr, fallback) == fallback

\* getattr(p, attr, fallback): an inspect.Parameter always has both
\* attributes, so the fallback is never taken.
GetAttr(param, attr, fallback) ==
    IF attr \in DOMAIN param THEN param[attr] ELSE fallback

\* the GetModel of the GET branch
GetFields(func) ==
    [n \in ParamNames(func) |->
        LET param == Param(func, n) IN
        [annotation |-> GetAttr(param, "annotation", "str"),
         default |-> IF GetAttr(param, "default", NoneV) # EmptyV
                     THEN GetAttr(param, "default", NoneV)
                     ELSE EllipsisV]]

\* create_model(name, **fields): pydantic has no validator for the class
\* inspect.Parameter.empty, so a field annotated with it makes the call
\* raise RuntimeError
CreateModelRaises(fields) == \E n \in DOMAIN fields : fields[n].annotation = EmptyAnn

Required(fields) == {n \in DOMAIN fields : fields[n].default = EllipsisV}

\* pydantic: a payload is valid when every required field is present;
\* unknown keys are ignored.
Valid(fields, body) == Required(fields) \subseteq DOMAIN body

\* absent fields decoded as None instead of the field's default
DecodeUnsetAsNone(fields, body) ==
    [n \in DOMAIN fields |-> IF n \in DOMAIN body THEN body[n] ELSE NoneV]

\* payload.dict(): every field, absent ones with the field's default
Decode(fields, body) ==
    [n \in DOMAIN fields |-> IF n \in DOMAIN body THEN body[n] ELSE fields[n].default]

(***************************************************************************)
(* Description derivation (_generate_description).                         *)
(***************************************************************************)
RECURSIVE Join(_, _)
Join(sep, strs) ==
    IF Len(strs) = 0 THEN ""
    ELSE IF Len(strs) = 1 THEN strs[1]
    ELSE strs[1] \o sep \o Join(sep, Tail(strs))

\* the except branch: "name(p1: t1, p2) -> ret" and the doc text, if any
SignatureString(func) ==
    LET params == [k \in 1..Len(func.params) |->
                      IF func.params[k].annotation = EmptyAnn
                      THEN func.params[k].name
                      ELSE func.params[k].name \o ": " \o func.params[k].annotation]
        return_description == IF func.returns = EmptyAnn THEN "" ELSE " -> " \o func.returns
        func_doc == IF func.doc # NoneV THEN "\n\t" \o func.doc.s ELSE ""
    IN func.name \o "(" \o Join(", ", params) \o ")" \o return_description \o func_doc

\* inspect.getsource(func), or the signature summary when it raises
FuncStr(func) == IF func.source # NoneV THEN func.source.s ELSE SignatureString(func)

\* chain.run(func_str=...): the collaborator's text, here a function of the prompt
Completion(func_str) == "Description of: " \o func_str

\* the message of line 159 (its backquotes written as ')
ImportErrorMsg ==
    "Please install LangChain to generate function descriptions. Otherwise, set 'generate_description=False' when registering your function."

\* What the collaborator does in one call: "ok", "llm_error" (OpenAI(...)
\* raises) or "run_error" (chain.run raises).
LlmOutcomes == {"ok", "llm_error", "run_error"}

\* the chain built anew on every call, the cached one never consulted
GetLangchainDescriptionNoCache(func_str, llm) ==
    IF ~langchain
    THEN [outcome |-> "ImportError", msg |-> ImportErrorMsg, text |-> "",
          chain |-> chain, initCount |-> initCount, ranOn |-> 0]
    ELSE IF llm = "llm_error"
    THEN [outcome |-> "LLMError", msg |-> "", text |-> "",
          chain |-> chain, initCount |-> initCount, ranOn |-> 0]
    ELSE [outcome |-> IF llm = "run_error" THEN "LLMError" ELSE "ok",
          msg |-> "", text |-> Completion(func_str),
          chain |-> initCount + 1, initCount |-> initCount + 1,
          ranOn |-> initCount + 1]

\* the failed import swallowed: an empty description is returned
GetLangchainDescriptionImportSwallowed(func_str, llm) ==
    IF chain # 0
    THEN [outcome |-> IF llm = "run_error" THEN "LLMError" ELSE "ok",
          msg |-> "", text |-> Completion(func_str),
          chain |-> chain, initCount |-> initCount, ranOn |-> chain]
    ELSE IF ~langchain
    THEN [outcome |-> "ok", msg |-> "", text |-> "",
          chain |-> chain, initCount |-> initCount, ranOn |-> 0]
    ELSE IF llm = "llm_error"
    THEN [outcome |-> "LLMError", msg |-> "", text |-> "",
          chain |-> chain, initCount |-> initCount, ranOn |-> 0]
    ELSE [outcome |-> IF llm = "run_error" THEN "LLMError" ELSE "ok",
          msg |-> "", text |-> Completion(func_str),
          chain |-> initCount + 1, initCount |-> initCount + 1,
          ranOn |-> initCount + 1]

\* _get_langchain_description under collaborator outcome llm: the result and
\* the new values of _func_description_chain and of the construction count.
GetLangchainDescription(func_str, llm) ==
    IF chain # 0
    THEN [outcome |-> IF llm = "run_error" THEN "LLMError" ELSE "ok",
          msg |-> "", text |-> Completion(func_str),
          chain |-> chain, initCount |-> initCount, ranOn |-> chain]
    ELSE IF ~langchain
    THEN [outcome |-> "ImportError", msg |-> ImportErrorMsg, text |-> "",
          chain |-> chain, initCount |-> initCount, ranOn |-> 0]
    ELSE IF llm = "llm_error"
    THEN [outcome |-> "LLMError", msg |-> "", text |-> "",
          chain |-> chain, initCount |-> initCount, ranOn |-> 0]
    ELSE [outcome |-> IF llm = "run_error" THEN "LLMError" ELSE "ok",
          msg |-> "", text |-> Completion(func_str),
          chain |-> initCount + 1, initCount |-> initCount + 1,
          ranOn |-> initCount + 1]

GenerateDescription(func, llm) == GetLangchainDescription(FuncStr(func), llm)

\* the selection of the older variant (src/autoplugin.py, line 26)
NeedsGenerationTruthy(func, description, generate_description) ==
    description = NoneV /\ generate_description = "True"

\* register, lines 81-88: does this call derive the description?
NeedsGeneration(func, description, generate_description) ==
    /\ description = NoneV
    /\ \/ generate_description = "None" /\ func.doc = NoneV
       \/ generate_description = "True"

\* register, lines 81-88: the description when nothing is generated
StaticDescription(func, description) ==
    IF description # NoneV THEN description ELSE func.doc

(***************************************************************************)
(* register(app, func, methods=, description=, generate_description=)      *)
(***************************************************************************)
Route(func, method, description, fields) ==
    [path |-> "/" \o func.name, method |-> method, description |-> description,
     fields |-> fields, endpoint |-> func.name]

\* a loop that registers a route for whatever method is listed
RECURSIVE AddRoutesAnyMethod(_, _, _, _)
AddRoutesAnyMethod(table, func, methods, description) ==
    IF Len(methods) = 0 THEN table
    ELSE LET method == Head(methods)
             fields == IF method = "GET" THEN GetFields(func) ELSE PostFields(func)
         IN AddRoutesAnyMethod(Append(table, Route(func, method, description, fields)),
                               func, Tail(methods), description)

\* the fields of the model built for one entry of methods
FieldsFor(func, method) == IF method = "GET" THEN GetFields(func) ELSE PostFields(func)

\* does the loop of lines 113-139 leave with create_model's error?
\* True when some GET or POST entry builds a model that pydantic refuses.
RegisterRaises(func, methods) ==
    \E k \in 1..Len(methods) :
        /\ methods[k] \in {"GET", "POST"}
        /\ CreateModelRaises(FieldsFor(func, methods[k]))

\* the loop of lines 113-139 over the methods list: GET and POST entries
\* append a route, any other entry is skipped; the loop ends at the entry
\* whose create_model raises, the routes appended before it staying
RECURSIVE AddRoutes(_, _, _, _)
AddRoutes(table, func, methods, description) ==
    IF Len(methods) = 0 THEN table
    ELSE LET method == Head(methods) IN
         IF method \in {"GET", "POST"} /\ CreateModelRaises(FieldsFor(func, method))
         THEN table
         ELSE LET next == IF method = "GET"
                          THEN Append(table, Route(func, "GET", description, GetFields(func)))
                          ELSE IF method = "POST"
                          THEN Append(table, Route(func, "POST", description, PostFields(func)))
                          ELSE table
              IN AddRoutes(next, func, Tail(methods), description)

\* the methods argument: None, or a list
MethodsNone == [given |-> FALSE, list |-> <<>>]
Methods(list) == [given |-> TRUE, list |-> list]

\* methods=None means ["POST"] (lines 89-90)
MethodsOrDefault(methods) == IF ~methods.given THEN <<"POST">> ELSE methods.list

MethodLists == {<<>>, <<"GET">>, <<"GET", "POST">>, <<"PUT", "POST">>}

MethodArgs == {MethodsNone} \cup {Methods(l) : l \in MethodLists}

DescriptionArgs == {NoneV, StrV("Says hello.")}

GenerateDescriptionArgs == {"None", "True", "False"}

RegisterCall(func, methods, description, generate_description, derived, outcome, msg, ranOn) ==
    [op |-> "register", func |-> func.name, methods |-> methods,
     description |-> description, generate_description |-> generate_description,
     derived |-> derived, outcome |-> outcome, msg |-> msg, ranOn |-> ranOn,
     before |-> Len(routes)]

\* the routes registered although the description could not be derived
registerDespiteFailure(func, methods, description, generate_description, llm) ==
    /\ Len(routes) + Len(MethodsOrDefault(methods)) <= MaxRoutes
    /\ IF NeedsGeneration(func, description, generate_description)
       THEN LET d == GenerateDescription(func, llm) IN
            /\ genOk < MaxGenCalls
            /\ chain' = d.chain
            /\ initCount' = d.initCount
            /\ genOk' = IF d.outcome = "ok" THEN genOk + 1 ELSE genOk
            /\ routes' = AddRoutes(routes, func, MethodsOrDefault(methods),
                                   IF d.outcome = "ok" THEN StrV(d.text) ELSE NoneV)
            /\ call' = RegisterCall(func, methods, description, generate_description, 1,
                                    IF d.outcome = "ok" /\ RegisterRaises(func, MethodsOrDefault(methods))
                                    THEN "RuntimeError" ELSE d.outcome,
                                    d.msg, d.ranOn)
       ELSE /\ llm = "ok"
            /\ routes' = AddRoutes(routes, func, MethodsOrDefault(methods),
                                   StaticDescription(func, description))
            /\ call' = RegisterCall(func, methods, description, generate_description, 0,
                                    IF RegisterRaises(func, MethodsOrDefault(methods))
                                    THEN "RuntimeError" ELSE "ok",
                                    "", 0)
            /\ UNCHANGED <<chain, initCount, genOk>>
    /\ UNCHANGED <<langchain, fs, thread>>

register(func, methods, description, generate_description, llm) ==
    /\ Len(routes) + Len(MethodsOrDefault(methods)) <= MaxRoutes
    /\ IF NeedsGeneration(func, description, generate_description)
       THEN LET d == GenerateDescription(func, llm) IN
            /\ genOk < MaxGenCalls
            /\ chain' = d.chain
            /\ initCount' = d.initCount
            /\ IF d.outcome = "ok"
               THEN /\ genOk' = genOk + 1
                    /\ routes' = AddRoutes(routes, func, MethodsOrDefault(methods),
                                           StrV(d.text))
               ELSE UNCHANGED <<genOk, routes>>
            /\ call' = RegisterCall(func, methods, description, generate_description, 1,
                                    IF d.outcome = "ok" /\ RegisterRaises(func, MethodsOrDefault(methods))
                                    THEN "RuntimeError" ELSE d.outcome,
                                    d.msg, d.ranOn)
       ELSE /\ llm = "ok"
            /\ routes' = AddRoutes(routes, func, MethodsOrDefault(methods),
                                   StaticDescription(func, description))
            /\ call' = RegisterCall(func, methods, description, generate_description, 0,
                                    IF RegisterRaises(func, MethodsOrDefault(methods))
                                    THEN "RuntimeError" ELSE "ok",
                                    "", 0)
            /\ UNCHANGED <<chain, initCount, genOk>>
    /\ UNCHANGED <<langchain, fs, thread>>

(***************************************************************************)
(* Serving a request on the registered routes.                             *)
(***************************************************************************)
\* wrapper (lines 92-94): awaits func(**kwargs)
wrapper(func, kwargs) == Invoke(func, kwargs)

\* post_wrapper / get_wrapper (lines 107-109, 131-133): the payload that
\* passed validation is decoded and handed to wrapper; the result is
\* wrapped as {"result": result}
Handle(route, body) ==
    LET kwargs == Decode(route.fields, body)
        func == CallableNamed(route.endpoint)
    IN [status |-> 200,
        response |-> [result |-> wrapper(func, kwargs)],
        invoked |-> << [func |-> func.name, kwargs |-> kwargs] >>]

\* the framework's part: the first route matching path and method serves
\* the request; a payload failing validation is answered 422 without
\* calling the handler
Matching(method, path) ==
    {k \in 1..Len(routes) : routes[k].path = path /\ routes[k].method = method}

Min(S) == CHOOSE k \in S : \A j \in S : k <= j

Rejected(status) == [status |-> status, response |-> [detail |-> status], invoked |-> <<>>]

Serve(method, path, body) ==
    IF Matching(method, path) = {}
    THEN Rejected(IF \E k \in 1..Len(routes) : routes[k].path = path THEN 405 ELSE 404)
    ELSE LET route == routes[Min(Matching(method, path))] IN
         IF Valid(route.fields, body) THEN Handle(route, body) ELSE Rejected(422)

\* request payloads: any subset of these fields, each with one value of
\* the declared type
FieldValue(n) ==
    IF n = "name" THEN StrV("John Doe")
    ELSE IF n = "age" THEN IntV(31)
    ELSE IF n = "a" THEN IntV(1)
    ELSE IntV(2)

Bodies == {[n \in D |-> FieldValue(n)] : D \in SUBSET {"name", "age", "a", "b"}}

Paths == {"/hello", "/add"}

request(method, path, body) ==
    /\ LET r == Serve(method, path, body) IN
       call' = [op |-> "request", method |-> method, path |-> path, body |-> body,
                status |-> r.status, response |-> r.response, invoked |-> r.invoked]
    /\ UNCHANGED <<routes, chain, initCount, genOk, langchain, fs, thread>>

(***************************************************************************)
(* generate(app, out_dir, **kwargs)                                        *)
(***************************************************************************)
NameForHumanLimit == 50
NameForModelLimit == 50
DescriptionForHumanLimit == 120
DescriptionForModelLimit == 8000

\* plugin_spec of lines 40-57
DefaultManifest ==
    [name_for_human |-> "Custom Plugin",
     name_for_model |-> "Custom Plugin",
     description_for_human |-> "Unspecified custom plugin. Add behavior here.",
     description_for_model |-> "Unspecified custom plugin. Add behavior here.",
     schema_version |-> "v1",
     auth |-> [type |-> "none"],
     api |-> [type |-> "openapi", url |-> "http://localhost:8000/openapi.yaml",
              is_user_authenticated |-> FALSE],
     logo_url |-> "http://example.com/logo.png",
     contact_email |-> "support@example.com",
     legal_info_url |-> "http://www.example.com/legal"]

\* a merge that descends into the nested objects instead of replacing them
UpdateDeepMerge(d, kwargs) ==
    [k \in DOMAIN d \cup DOMAIN kwargs |->
        IF k \notin DOMAIN kwargs THEN d[k]
        ELSE IF k \in {"auth", "api"} /\ k \in DOMAIN d
        THEN [j \in DOMAIN d[k] \cup DOMAIN kwargs[k] |->
                 IF j \in DOMAIN kwargs[k] THEN kwargs[k][j] ELSE d[k][j]]
        ELSE kwargs[k]]

\* dict.update: the keys of both, the values of kwargs where it has the key
Update(d, kwargs) ==
    [k \in DOMAIN d \cup DOMAIN kwargs |-> IF k \in DOMAIN kwargs THEN kwargs[k] ELSE d[k]]

\* the limit taken as exclusive
PluginCheckLimitExclusive(plugin_spec, key, char_limit) == Len(plugin_spec[key]) < char_limit

\* _plugin_check_limit: the condition of the assert
PluginCheckLimit(plugin_spec, key, char_limit) == Len(plugin_spec[key]) <= char_limit

\* the four checks of lines 61-65, in order
LimitChecks ==
    << [key |-> "name_for_human", char_limit |-> NameForHumanLimit],
       [key |-> "name_for_model", char_limit |-> NameForModelLimit],
       [key |-> "description_for_human", char_limit |-> DescriptionForHumanLimit],
       [key |-> "description_for_model", char_limit |-> DescriptionForModelLimit] >>

\* the key whose assert fails first, "" when all four pass
FailingKey(plugin_spec) ==
    LET bad == {k \in 1..Len(LimitChecks) :
                   ~PluginCheckLimit(plugin_spec, LimitChecks[k].key, LimitChecks[k].char_limit)}
    IN IF bad = {} THEN "" ELSE LimitChecks[Min(bad)].key

\* get_openapi(title, version, routes=app.routes): one operation per path
\* and method, the route registered last winning
OpenApi(table) ==
    [title |-> "Custom ChatGPT Plugin", version |-> "1.0.0",
     paths |-> {[path |-> table[k].path, method |-> table[k].method,
                 description |-> table[k].description, fields |-> table[k].fields] :
                k \in {j \in 1..Len(table) :
                         \A m \in (j + 1)..Len(table) :
                            table[m].path # table[j].path \/ table[m].method # table[j].method}}]

Absent == [exists |-> FALSE, content |-> <<>>]
File(content) == [exists |-> TRUE, content |-> content]

\* an openapi.yaml that is already there is left as it is
generateKeepsDocument(kwargs) ==
    LET plugin_spec == Update(DefaultManifest, kwargs)
        failing == FailingKey(plugin_spec)
    IN /\ fs' = [openapi |-> IF fs.openapi.exists THEN fs.openapi ELSE File(OpenApi(routes)),
                 plugin |-> IF failing = "" THEN File(plugin_spec) ELSE fs.plugin]
       /\ call' = [op |-> "generate", kwargs |-> kwargs,
                   outcome |-> IF failing = "" THEN "ok" ELSE "AssertionError",
                   key |-> failing,
                   wrote |-> IF failing = "" THEN {"openapi.yaml", "ai-plugin.json"}
                             ELSE {"openapi.yaml"}]
       /\ UNCHANGED <<routes, chain, initCount, genOk, langchain, thread>>

generate(kwargs) ==
    LET plugin_spec == Update(DefaultManifest, kwargs)
        failing == FailingKey(plugin_spec)
    IN /\ fs' = [openapi |-> File(OpenApi(routes)),
                 plugin |-> IF failing = "" THEN File(plugin_spec) ELSE fs.plugin]
       /\ call' = [op |-> "generate", kwargs |-> kwargs,
                   outcome |-> IF failing = "" THEN "ok" ELSE "AssertionError",
                   key |-> failing,
                   wrote |-> IF failing = "" THEN {"openapi.yaml", "ai-plugin.json"}
                             ELSE {"openapi.yaml"}]
       /\ UNCHANGED <<routes, chain, initCount, genOk, langchain, thread>>

\* a string of n characters
RECURSIVE Rep(_)
Rep(n) ==
    IF n = 0 THEN ""
    ELSE LET h == Rep(n \div 2) IN IF n % 2 = 0 THEN h \o h ELSE (h \o h) \o "x"

\* the overrides a caller passes: for a limited key a text exactly at the
\* limit (1) or one character over it (2), for the others one value (1);
\* 0 leaves the key out
OverrideKeys ==
    {"name_for_human", "name_for_model", "description_for_human", "description_for_model",
     "auth", "api"}

LimitOf(k) == (CHOOSE j \in 1..Len(LimitChecks) : LimitChecks[j].key = k)

Limited(k) == \E j \in 1..Len(LimitChecks) : LimitChecks[j].key = k

OverrideValue(k, i) ==
    IF Limited(k) THEN Rep(LimitChecks[LimitOf(k)].char_limit + (i - 1))
    ELSE IF k = "auth" THEN [type |-> "service_http"]
    ELSE [type |-> "openapi", url |-> "https://example.org/openapi.yaml"]

Choices ==
    {c \in [OverrideKeys -> 0..2] :
        /\ \A k \in OverrideKeys : ~Limited(k) => c[k] <= 1
        /\ Cardinality({k \in OverrideKeys : c[k] # 0}) <= MaxOverrides}

KwargsOf(c) == [k \in {j \in OverrideKeys : c[j] # 0} |-> OverrideValue(k, c[k])]

Kwargs == {KwargsOf(c) : c \in Choices}

(***************************************************************************)
(* _get_langchain_description statement by statement, for threads that     *)
(* derive descriptions at the same time.                                   *)
(***************************************************************************)
Threads == 1..NumThreads

Idle == [pc |-> "idle", func |-> "", session |-> 0, outcome |-> ""]

Step(t, pc) == [op |-> "step", thread |-> t, pc |-> pc, overwrote |-> chain]

Returned(t, outcome) == [thread EXCEPT ![t] = [@ EXCEPT !.pc = "idle", !.outcome = outcome]]

\* _generate_description(func) is called: func_str is built (lines 210-223)
Begin(t, func) ==
    /\ thread[t].pc = "idle"
    /\ genOk < MaxGenCalls
    /\ thread' = [thread EXCEPT ![t] = [pc |-> "check", func |-> func.name,
                                        session |-> 0, outcome |-> ""]]
    /\ call' = Step(t, "begin")
    /\ UNCHANGED <<routes, chain, initCount, genOk, langchain, fs>>

\* line 152: if _func_description_chain is not None
Check(t) ==
    /\ thread[t].pc = "check"
    /\ thread' = [thread EXCEPT ![t] =
                      IF chain # 0 THEN [@ EXCEPT !.pc = "run", !.session = chain]
                      ELSE [@ EXCEPT !.pc = "import"]]
    /\ call' = Step(t, "check")
    /\ UNCHANGED <<routes, chain, initCount, genOk, langchain, fs>>

\* lines 154-159: the imports, or the ImportError
Import(t) ==
    /\ thread[t].pc = "import"
    /\ thread' = IF langchain THEN [thread EXCEPT ![t] = [@ EXCEPT !.pc = "build"]]
                 ELSE Returned(t, "ImportError")
    /\ call' = Step(t, "import")
    /\ UNCHANGED <<routes, chain, initCount, genOk, langchain, fs>>

\* lines 160-206: llm = OpenAI(...), prompt, chain = LLMChain(...)
Build(t, llm) ==
    /\ thread[t].pc = "build"
    /\ IF llm = "llm_error"
       THEN /\ thread' = Returned(t, "LLMError")
            /\ UNCHANGED initCount
       ELSE /\ thread' = [thread EXCEPT ![t] = [@ EXCEPT !.pc = "store",
                                                         !.session = initCount + 1]]
            /\ initCount' = initCount + 1
    /\ call' = Step(t, "build")
    /\ UNCHANGED <<routes, chain, genOk, langchain, fs>>

\* the assignment made only while the session is still unset
StoreIfUnset(t) ==
    /\ thread[t].pc = "store"
    /\ chain' = IF chain = 0 THEN thread[t].session ELSE chain
    /\ thread' = [thread EXCEPT ![t] = [@ EXCEPT !.pc = "run"]]
    /\ call' = Step(t, "store")
    /\ UNCHANGED <<routes, initCount, genOk, langchain, fs>>

\* line 207: _func_description_chain = chain
Store(t) ==
    /\ thread[t].pc = "store"
    /\ chain' = thread[t].session
    /\ thread' = [thread EXCEPT ![t] = [@ EXCEPT !.pc = "run"]]
    /\ call' = Step(t, "store")
    /\ UNCHANGED <<routes, initCount, genOk, langchain, fs>>

\* lines 153 and 208: chain.run(func_str=func_str), and the return
Run(t, llm) ==
    /\ thread[t].pc = "run"
    /\ llm # "llm_error"
    /\ IF llm = "ok"
       THEN /\ thread' = Returned(t, "ok")
            /\ genOk' = genOk + 1
       ELSE /\ thread' = Returned(t, "LLMError")
            /\ UNCHANGED genOk
    /\ call' = Step(t, "run")
    /\ UNCHANGED <<routes, chain, initCount, langchain, fs>>

(***************************************************************************)
(* Specifications.                                                         *)
(***************************************************************************)
Init ==
    /\ routes = <<>>
    /\ chain = 0
    /\ initCount = 0
    /\ genOk = 0
    /\ langchain \in BOOLEAN
    /\ fs = [openapi |-> Absent, plugin |-> Absent]
    /\ call = [op |-> "none"]
    /\ thread = [t \in Threads |-> Idle]

Register ==
    \E func \in Callables, methods \in MethodArgs, description \in DescriptionArgs,
       generate_description \in GenerateDescriptionArgs, llm \in LlmOutcomes :
        register(func, methods, description, generate_description, llm)

Request ==
    \E method \in {"GET", "POST"}, path \in Paths, body \in Bodies :
        request(method, path, body)

Generate == \E kwargs \in Kwargs : generate(kwargs)

\* registration with every combination of arguments
Next == Register

Spec == Init /\ [][Next]_vars

\* registration with an explicit description, and serving
RegisterDescribed ==
    \E func \in Callables, methods \in MethodArgs :
        register(func, methods, StrV("Says hello."), "None", "ok")

NextServe == RegisterDescribed \/ Request

SpecServe == Init /\ [][NextServe]_vars

\* registration of a callable without annotations
RegisterUntyped ==
    \E func \in {echo, hello}, methods \in MethodArgs, description \in DescriptionArgs,
       generate_description \in GenerateDescriptionArgs, llm \in LlmOutcomes :
        register(func, methods, description, generate_description, llm)

NextUntyped == RegisterUntyped

SpecUntyped == Init /\ [][NextUntyped]_vars

\* registration without generation, and emission of the documents
RegisterStatic ==
    \E func \in Callables, methods \in MethodArgs, description \in DescriptionArgs :
        register(func, methods, description, "False", "ok")

GenerateDocument ==
    \E kwargs \in {kw \in Kwargs : DOMAIN kw \subseteq {"description_for_human"}} :
        generate(kwargs)

NextDocument == RegisterStatic \/ GenerateDocument

SpecDocument == Init /\ [][NextDocument]_vars

\* description derivation by several threads
NextRace ==
    \E t \in Threads :
        \/ \E func \in Callables : Begin(t, func)
        \/ Check(t)
        \/ Import(t)
        \/ \E llm \in LlmOutcomes : Build(t, llm)
        \/ Store(t)
        \/ \E llm \in LlmOutcomes : Run(t, llm)

SpecRace == Init /\ [][NextRace]_vars

\* manifest emission
NextManifest == Generate

SpecManifest == Init /\ [][NextManifest]_vars

(***************************************************************************)
(* Manifest emission: C1, C2, C3 (under SpecManifest).                     *)
(***************************************************************************)
GenerateAborted == call.op = "generate" /\ call.outcome = "AssertionError"
GenerateReturned == call.op = "generate" /\ call.outcome = "ok"

\* C1: a generate call that aborts on a length limit writes no file: neither
\* openapi.yaml nor ai-plugin.json of the target directory is created or
\* modified by it.
C1_AbortWritesNoFile == [][GenerateAborted' => fs' = fs]_vars

\* the four documented limits
WithinDocumentedLimits(m) ==
    /\ Len(m["name_for_human"]) <= 50
    /\ Len(m["name_for_model"]) <= 50
    /\ Len(m["description_for_human"]) <= 120
    /\ Len(m["description_for_model"]) <= 8000

\* what the caller asked for under key k: the override, else the default
Asked(k) == IF k \in DOMAIN call.kwargs THEN call.kwargs[k] ELSE DefaultManifest[k]

\* C2: ai-plugin.json is written only with all four limits met: a written
\* manifest always satisfies them, and a call writes it exactly when the
\* values asked for are within the limits (at the limit: written; one
\* character over: the emission fails).
C2_ManifestWithinLimits ==
    /\ fs.plugin.exists => WithinDocumentedLimits(fs.plugin.content)
    /\ call.op = "generate" =>
          /\ call.outcome = "ok" <=>
                WithinDocumentedLimits([k \in DOMAIN DefaultManifest |-> Asked(k)])
          /\ "ai-plugin.json" \in call.wrote <=> call.outcome = "ok"

\* a manifest with a description_for_human of exactly 120 characters was
\* written, and the last call, asking for 121 characters, failed
C2_Witness ==
    /\ GenerateAborted
    /\ call.key = "description_for_human"
    /\ Len(call.kwargs["description_for_human"]) = 121
    /\ fs.plugin.exists
    /\ Len(fs.plugin.content["description_for_human"]) = 120

DocumentedKeys ==
    {"name_for_human", "name_for_model", "description_for_human", "description_for_model",
     "schema_version", "auth", "api", "logo_url", "contact_email", "legal_info_url"}

\* C3: the manifest a generate call writes is the default manifest with
\* each supplied top-level key replacing the default value as a whole; the
\* other keys keep their defaults; without overrides it is the ten
\* documented keys with the default values.
C3_ShallowMerge ==
    GenerateReturned =>
        /\ fs.plugin.exists
        /\ DOMAIN fs.plugin.content = DocumentedKeys \cup DOMAIN call.kwargs
        /\ \A k \in DOMAIN call.kwargs : fs.plugin.content[k] = call.kwargs[k]
        /\ \A k \in DocumentedKeys \ DOMAIN call.kwargs :
              fs.plugin.content[k] = DefaultManifest[k]
        /\ DOMAIN call.kwargs = {} =>
              /\ DOMAIN fs.plugin.content = DocumentedKeys
              /\ fs.plugin.content = DefaultManifest

\* "api" was overridden by an object without is_user_authenticated, and the
\* written manifest has lost that nested key while keeping the default auth
C3_Witness ==
    /\ GenerateReturned
    /\ "api" \in DOMAIN call.kwargs
    /\ "is_user_authenticated" \notin DOMAIN fs.plugin.content["api"]
    /\ fs.plugin.content["auth"] = DefaultManifest["auth"]

(***************************************************************************)
(* Serving: C4, C5, C6 (under SpecServe).                                  *)
(***************************************************************************)
\* the callable a request path names
Target(path) == CHOOSE f \in Callables : "/" \o f.name = path

\* the parameters declared without a default
NoDefault(func) == {n \in ParamNames(func) : Param(func, n).default = EmptyV}

Served(method) ==
    /\ call.op = "request"
    /\ call.method = method
    /\ \E k \in 1..Len(routes) : routes[k].path = call.path /\ routes[k].method = method

\* C4: the POST route of a callable accepts every body that has all the
\* parameters without a default, whichever parameters with a default it
\* has, and rejects without calling the callable every body that lacks one
\* of the parameters without a default.
C4_PostRequiredOptional ==
    Served("POST") =>
        IF NoDefault(Target(call.path)) \subseteq DOMAIN call.body
        THEN call.status = 200 /\ Len(call.invoked) = 1
        ELSE call.status # 200 /\ call.invoked = <<>>

\* POST /hello with the required name alone was accepted
C4_Witness ==
    /\ Served("POST")
    /\ call.path = "/hello"
    /\ DOMAIN call.body = {"name"}
    /\ call.status = 200

\* C5: when a callable has a GET and a POST route, both schemas have the
\* same field names, the same required fields and the same defaults, so
\* each payload is valid for the one exactly when it is for the other.
C5_GetSchemaEqualsPost ==
    \A i, j \in 1..Len(routes) :
        (/\ routes[i].endpoint = routes[j].endpoint
         /\ routes[i].method = "GET"
         /\ routes[j].method = "POST") =>
            /\ DOMAIN routes[i].fields = DOMAIN routes[j].fields
            /\ Required(routes[i].fields) = Required(routes[j].fields)
            /\ \A n \in DOMAIN routes[i].fields :
                  /\ routes[i].fields[n].default = routes[j].fields[n].default
                  /\ routes[i].fields[n].annotation = routes[j].fields[n].annotation
            /\ \A body \in Bodies :
                  Valid(routes[i].fields, body) <=> Valid(routes[j].fields, body)

\* hello is registered with a GET and a POST route
C5_Witness ==
    \E i, j \in 1..Len(routes) :
        /\ routes[i].endpoint = "hello" /\ routes[j].endpoint = "hello"
        /\ routes[i].method = "GET" /\ routes[j].method = "POST"

\* C6: an accepted request calls the callable once, with the fields of
\* the payload as keyword arguments and the declared default for every
\* field left out, and answers {"result": <the return value>}; hello with
\* name 'John Doe' alone answers 'Hello, John Doe! Age 5.'.
C6_InvokeAndEnvelope ==
    (call.op = "request" /\ call.status = 200) =>
        LET func == Target(call.path) IN
        /\ Len(call.invoked) = 1
        /\ call.invoked[1].func = func.name
        /\ DOMAIN call.invoked[1].kwargs = ParamNames(func)
        /\ \A n \in ParamNames(func) :
              call.invoked[1].kwargs[n] =
                 IF n \in DOMAIN call.body THEN call.body[n] ELSE Param(func, n).default
        /\ DOMAIN call.response = {"result"}
        /\ call.response.result = Invoke(func, call.invoked[1].kwargs)
        /\ (func.name = "hello" /\ "age" \notin DOMAIN call.body) =>
              call.response.result = StrV("Hello, John Doe! Age 5.")
        /\ (func.name = "hello" /\ "age" \in DOMAIN call.body) =>
              call.response.result = StrV("Hello, John Doe! Age 31.")

\* POST /hello with {"name": "John Doe"} answered "Hello, John Doe! Age 5."
C6_Witness ==
    /\ call.op = "request"
    /\ call.method = "POST"
    /\ call.path = "/hello"
    /\ DOMAIN call.body = {"name"}
    /\ call.status = 200
    /\ call.response = [result |-> StrV("Hello, John Doe! Age 5.")]

(***************************************************************************)
(* Registration and description derivation: C7 - C10 (under Spec).         *)
(***************************************************************************)
Registered == call.op = "register"

\* the routes the last register call appended
Added == (call.before + 1)..Len(routes)

\* C7 as stated: the description of the routes is the explicit description
\* if given, else the doc text if the callable has one, else the
\* collaborator's text, whatever the other arguments; the collaborator is
\* never run when a description or a doc text is available.
C7_StrictPriority ==
    Registered =>
        LET func == CallableNamed(call.func)
            expected == IF call.description # NoneV THEN call.description
                        ELSE IF func.doc # NoneV THEN func.doc
                        ELSE StrV(Completion(FuncStr(func)))
        IN /\ (call.description # NoneV \/ func.doc # NoneV) => call.ranOn = 0
           /\ call.outcome = "ok" => \A k \in Added : routes[k].description = expected

\* C7 amended: an explicit description is used verbatim and nothing is
\* generated.  Without one: generate_description=True always takes the
\* collaborator's text, doc text or not; generate_description=False takes
\* the doc text, or no description, and never runs the collaborator;
\* generate_description not given takes the doc text if there is one and
\* the collaborator's text otherwise.
C7_DescriptionSelection ==
    Registered =>
        LET func == CallableNamed(call.func)
            generates == /\ call.description = NoneV
                         /\ \/ call.generate_description = "True"
                            \/ call.generate_description = "None" /\ func.doc = NoneV
            expected == IF call.description # NoneV THEN call.description
                        ELSE IF generates THEN StrV(Completion(FuncStr(func)))
                        ELSE func.doc
        IN /\ ~generates => call.ranOn = 0 /\ call.outcome = "ok"
           /\ (generates /\ call.outcome = "ok") => call.ranOn # 0
           /\ call.outcome = "ok" => \A k \in Added : routes[k].description = expected

\* add has a doc text, yet with generate_description=True its route carries
\* the collaborator's text
C7_Witness ==
    /\ Registered
    /\ call.func = "add"
    /\ call.description = NoneV
    /\ call.generate_description = "True"
    /\ call.ranOn # 0
    /\ Added # {}
    /\ \A k \in Added : routes[k].description = StrV(Completion(FuncStr(add)))

\* C8: over any sequence of description derivations the session is built
\* once: as soon as one derivation has returned the construction count is
\* 1, a cached session is never replaced or reset, and a call made with a
\* session cached runs on that session.
C8_SessionBuiltOnce ==
    [][/\ genOk' >= 1 => initCount' = 1 /\ chain' # 0
       /\ chain # 0 => chain' = chain
       /\ (chain # 0 /\ call'.op = "register" /\ call'.derived = 1) => call'.ranOn = chain]_vars

\* two derivations have returned, on one session
C8_Witness == genOk = 2 /\ initCount = 1 /\ chain = 1 /\ Registered /\ call.ranOn = 1

\* C9: when the client library cannot be imported, a derivation fails at
\* once with the ImportError that says to install it or to pass
\* generate_description=False; the collaborator is not run, no session is
\* built or cached, the session stays unset.
C9_ImportErrorFailsFast ==
    /\ ~langchain => chain = 0 /\ initCount = 0
    /\ (Registered /\ call.derived = 1 /\ ~langchain) =>
          /\ call.outcome = "ImportError"
          /\ call.msg = "Please install LangChain to generate function descriptions. Otherwise, set 'generate_description=False' when registering your function."
          /\ call.ranOn = 0
    /\ (Registered /\ call.outcome = "ImportError") => ~langchain /\ chain = 0

\* a register call needing a generated description failed on the import
C9_Witness ==
    /\ Registered
    /\ call.derived = 1
    /\ call.outcome = "ImportError"
    /\ chain = 0

\* the methods a register call asked for
Asks(c) == IF c.methods.given THEN c.methods.list ELSE <<"POST">>

\* C10 as stated: a register call adds one route per entry of methods, for
\* that method at path /<name>, and without methods exactly one POST route.
C10_OneRoutePerMethod ==
    (Registered /\ call.outcome = "ok") =>
        /\ Len(routes) = call.before + Len(Asks(call))
        /\ \A k \in 1..Len(Asks(call)) :
              /\ routes[call.before + k].method = Asks(call)[k]
              /\ routes[call.before + k].path = "/" \o call.func

IsGetOrPost(m) == m \in {"GET", "POST"}

\* C10 amended: a register call that returns appends one route per GET or
\* POST entry of methods, in order, for that method at path /<name>, and
\* nothing for an entry that is neither; the routes present before are
\* kept; without methods it appends exactly one POST route.
C10_RoutePerGetOrPost ==
    [][(call'.op = "register" /\ call'.outcome = "ok") =>
          LET kept == SelectSeq(Asks(call'), IsGetOrPost) IN
          /\ Len(routes') = Len(routes) + Len(kept)
          /\ SubSeq(routes', 1, Len(routes)) = routes
          /\ \A k \in 1..Len(kept) :
                /\ routes'[Len(routes) + k].method = kept[k]
                /\ routes'[Len(routes) + k].path = "/" \o call'.func
          /\ ~call'.methods.given =>
                /\ Len(routes') = Len(routes) + 1
                /\ routes'[Len(routes')].method = "POST"]_vars

\* methods=["PUT", "POST"] added the POST route alone
C10_Witness ==
    /\ Registered
    /\ call.outcome = "ok"
    /\ call.methods = Methods(<<"PUT", "POST">>)
    /\ Len(routes) = call.before + 1
    /\ routes[Len(routes)].method = "POST"

(***************************************************************************)
(* Unannotated parameters: C11 (under SpecUntyped).                        *)
(***************************************************************************)
Unannotated(func) == {n \in ParamNames(func) : Param(func, n).annotation = EmptyAnn}

\* C11: registering a callable that has a parameter without annotation does
\* not raise on account of it: registration completes, and in the GET and
\* in the POST route the field of that parameter has the string type.
C11_UnannotatedFallsBackToStr ==
    (Registered /\ Unannotated(CallableNamed(call.func)) # {}) =>
        /\ call.outcome # "RuntimeError"
        /\ \A k \in Added : \A n \in Unannotated(CallableNamed(call.func)) :
              routes[k].fields[n].annotation = "str"

(***************************************************************************)
(* The OpenAPI document: C12 (under SpecDocument).                         *)
(***************************************************************************)
\* doc has an operation for the path and method of every route of table,
\* and every operation of doc is a route of table
Describes(doc, table) ==
    /\ \A k \in 1..Len(table) :
          \E o \in doc.paths : o.path = table[k].path /\ o.method = table[k].method
    /\ \A o \in doc.paths :
          \E k \in 1..Len(table) :
              /\ o.path = table[k].path
              /\ o.method = table[k].method
              /\ o.description = table[k].description
              /\ o.fields = table[k].fields

\* C12: the openapi.yaml a generate call writes describes exactly the routes
\* of the route table at that call; a register call afterwards leaves the
\* written document as it is, so its routes are not in the document until
\* generate is called again.
C12_DocumentIsSnapshot ==
    [][/\ call'.op = "generate" =>
             /\ routes' = routes
             /\ fs'.openapi.exists
             /\ Describes(fs'.openapi.content, routes)
       /\ call'.op = "register" => fs'.openapi = fs.openapi]_vars

\* a route registered after the document was written is not in it
C12_Witness ==
    /\ Registered
    /\ call.outcome = "ok"
    /\ fs.openapi.exists
    /\ fs.openapi.content.paths # {}
    /\ \E k \in Added :
          \A o \in fs.openapi.content.paths :
              o.path # routes[k].path \/ o.method # routes[k].method

(***************************************************************************)
(* Concurrent first use of the session: C13 (under SpecRace).              *)
(***************************************************************************)
\* C13: the lazy initialization is an unguarded check-then-set.  A thread
\* that found the session unset builds a session of its own, whatever other
\* threads have built or stored since, and its assignment replaces whatever
\* session is stored; so two threads that both pass the check make the
\* construction count 2, the session stored last replacing the other.
C13_UnguardedCheckThenSet ==
    [][\A t \in Threads :
          /\ (thread[t].pc = "check" /\ thread'[t].pc # "check") =>
                (thread'[t].pc = "import" <=> chain = 0)
          /\ (thread[t].pc = "build" /\ thread'[t].pc = "store") =>
                /\ initCount' = initCount + 1
                /\ thread'[t].session = initCount'
          /\ (thread[t].pc = "store" /\ thread'[t].pc # "store") =>
                chain' = thread[t].session]_vars

\* both threads built a session, and the second assignment has just
\* replaced the session the first one stored
C13_Witness ==
    /\ initCount = 2
    /\ call.op = "step"
    /\ call.pc = "store"
    /\ call.overwrote # 0
    /\ chain # call.overwrote
    /\ chain = thread[call.thread].session

(***************************************************************************)
(* Failed description derivation: C14 (under Spec).                        *)
(***************************************************************************)
DerivationErrors == {"ImportError", "LLMError"}

\* C14: when the description derivation of a register call raises (the
\* client library is missing, or the generation call fails), the call ends
\* with that error after one attempt (at most one session is built, no
\* derivation is counted as returned) and the route table is as before: no
\* route of the callable is added.
C14_FailedDerivationLeavesRoutes ==
    [][(call'.op = "register" /\ call'.outcome \in DerivationErrors) =>
          /\ routes' = routes
          /\ call'.derived = 1
          /\ genOk' = genOk
          /\ initCount' <= initCount + 1
          /\ (call'.outcome = "ImportError") = (~langchain /\ chain = 0)]_vars

\* a register call asking for GET and POST routes failed in the generation
\* call, which ran on a built session; the route table is still empty
C14_Witness ==
    /\ Registered
    /\ call.outcome = "LLMError"
    /\ call.methods = Methods(<<"GET", "POST">>)
    /\ call.before = 0
    /\ routes = <<>>
    /\ call.ranOn # 0

====
